---- MODULE Spec2Model ----
(***************************************************************************)
(* Billventory: the inventory ledger kept by the Express/Mongoose server   *)
(* (src/server/server.js, schema in src/unnamed/part_000 lines 1-33) and   *)
(* the inventory the React client derives from its transaction list        *)
(* (src/unnamed/part_000 lines 56-173).                                    *)
(*                                                                         *)
(* Numbers.  JavaScript numbers are modelled exactly: quantities, prices   *)
(* and dates are integers, averageCost is a reduced fraction <<n, d>> with *)
(* d > 0.  Strings that the code inspects (item descriptions) are          *)
(* sequences of one-character strings; strings that are only compared      *)
(* (transaction ids, types) are TLA+ strings.                              *)
(***************************************************************************)
EXTENDS Integers, Sequences, FiniteSets, TLC

(***************************************************************************)
(* Bounds of the model.                                                    *)
(***************************************************************************)
MaxOps == 2        \* requests issued to the server in one behaviour
MaxHist == 2       \* transactions submitted in the ledger specification
MaxSteps == 3      \* transactions submitted in the cost specification
MaxQty == 2        \* largest quantity of a line item in the cost specification
MaxPrice == 2      \* largest unit price of a line item in the cost specification
MaxLife == 3       \* requests in the specification of request sequences
MaxChat == 2       \* submissions of the chat form in the chat specification

Null == [null |-> TRUE]     \* findOne(...) found nothing / no record stored

(***************************************************************************)
(* String.prototype.trim and String.prototype.toLowerCase on descriptions. *)
(***************************************************************************)
IsSpace(c) == c = " "

ToLowerChar(c) ==
    CASE c = "A" -> "a"
      [] c = "B" -> "b"
      [] c = "M" -> "m"
      [] c = "L" -> "l"
      [] OTHER -> c

toLowerCase(s) == [i \in 1..Len(s) |-> ToLowerChar(s[i])]

RECURSIVE TrimStart(_)
TrimStart(s) ==
    IF s # <<>> /\ IsSpace(Head(s)) THEN TrimStart(Tail(s)) ELSE s

RECURSIVE TrimEnd(_)
TrimEnd(s) ==
    IF s # <<>> /\ IsSpace(s[Len(s)]) THEN TrimEnd(SubSeq(s, 1, Len(s) - 1)) ELSE s

trim(s) == TrimEnd(TrimStart(s))

\* item.description.trim().toLowerCase()
ProductKey(description) == toLowerCase(trim(description))

(***************************************************************************)
(* Exact arithmetic for averageCost.                                       *)
(***************************************************************************)
Abs(n) == IF n < 0 THEN -n ELSE n

RECURSIVE Gcd(_, _)
Gcd(a, b) == IF b = 0 THEN a ELSE Gcd(b, a % b)

\* the number n / d, d > 0, in lowest terms
Frac(n, d) ==
    LET g == Gcd(Abs(n), d) IN <<n \div g, d \div g>>

FracOfInt(k) == <<k, 1>>

\* k * r
FracTimesInt(r, k) == Frac(r[1] * k, r[2])

\* r + k
FracPlusInt(r, k) == Frac(r[1] + k * r[2], r[2])

\* r / k, k > 0
FracDivInt(r, k) == Frac(r[1], r[2] * k)

(***************************************************************************)
(* Input domains.  Descriptions are product names as typed into the form:  *)
(* two spellings of one product and one other product.                     *)
(***************************************************************************)
Descriptions == { <<"A", "b">>, <<" ", "a", "B", " ">>, <<"M">> }
\* a line is a small lot at a high unit price or a large lot at a low one
Lots == { [quantity |-> 1, price |-> 3], [quantity |-> 2, price |-> 1] }
Dates == {1, 2}
Types == {"PURCHASE", "SALE"}
TxIds == {"t1", "t2"}

LineItems ==
    {[description |-> d, quantity |-> lot.quantity, price |-> lot.price] :
        d \in Descriptions, lot \in Lots}

\* a transaction as it arrives in req.body
Txn(id, type, date, items) ==
    [id |-> id, type |-> type, date |-> date, items |-> items]

(***************************************************************************)
(* Mongoose collections: a sequence of documents in insertion order.       *)
(***************************************************************************)
Range(f) == {f[i] : i \in DOMAIN f}

\* Model.findOne({ id: id })
findOne(coll, id) ==
    IF \E i \in DOMAIN coll : coll[i].id = id
    THEN coll[CHOOSE i \in DOMAIN coll :
                 coll[i].id = id /\ \A j \in 1..(i - 1) : coll[j].id # id]
    ELSE Null

\* a findOneAndUpdate that only inserts: an existing document keeps its fields
findOneAndInsert(coll, doc) ==
    IF \E i \in DOMAIN coll : coll[i].id = doc.id THEN coll ELSE Append(coll, doc)

\* Model.findOneAndUpdate({ id: doc.id }, doc, { new: true, upsert: true })
findOneAndUpdate(coll, doc) ==
    IF \E i \in DOMAIN coll : coll[i].id = doc.id
    THEN [i \in DOMAIN coll |-> IF coll[i].id = doc.id THEN doc ELSE coll[i]]
    ELSE Append(coll, doc)

\* a deleteOne that falls back to the first document when none has the id
deleteOneOrFirst(coll, id) ==
    IF \E i \in DOMAIN coll : coll[i].id = id
    THEN LET k == CHOOSE i \in DOMAIN coll :
                      coll[i].id = id /\ \A j \in 1..(i - 1) : coll[j].id # id
         IN SubSeq(coll, 1, k - 1) \o SubSeq(coll, k + 1, Len(coll))
    ELSE IF coll = <<>> THEN coll ELSE Tail(coll)

\* a deleteOne whose filter matches nothing
deleteNone(coll, id) == coll

\* Model.deleteOne({ id: id })
deleteOne(coll, id) ==
    IF \E i \in DOMAIN coll : coll[i].id = id
    THEN LET k == CHOOSE i \in DOMAIN coll :
                      coll[i].id = id /\ \A j \in 1..(i - 1) : coll[j].id # id
         IN SubSeq(coll, 1, k - 1) \o SubSeq(coll, k + 1, Len(coll))
    ELSE coll

\* document.save(): insert a new document, write a loaded one back
save(coll, doc) ==
    IF findOne(coll, doc.id) = Null
    THEN Append(coll, doc)
    ELSE [i \in DOMAIN coll |-> IF coll[i].id = doc.id THEN doc ELSE coll[i]]

\* the fields of the document that were assigned a different value since it
\* was loaded: the paths save() writes
ModifiedPaths(doc, found) == {f \in DOMAIN doc : doc[f] # found[f]}

\* a save() that adds the quantity change to whatever is stored now
saveIncrement(coll, doc, found) ==
    IF found = Null
    THEN Append(coll, doc)
    ELSE [i \in DOMAIN coll |->
            IF coll[i].id = doc.id
            THEN [f \in DOMAIN coll[i] |->
                    IF f = "quantity" THEN coll[i][f] + (doc[f] - found[f])
                    ELSE IF f \in ModifiedPaths(doc, found) THEN doc[f]
                    ELSE coll[i][f]]
            ELSE coll[i]]

\* a save() after which records without stock are removed
saveDocumentDropsEmpty(coll, doc, found) ==
    SelectSeq(IF found = Null
              THEN Append(coll, doc)
              ELSE [i \in DOMAIN coll |->
                      IF coll[i].id = doc.id
                      THEN [f \in DOMAIN coll[i] |->
                              IF f \in ModifiedPaths(doc, found) THEN doc[f]
                              ELSE coll[i][f]]
                      ELSE coll[i]],
              LAMBDA d : d.quantity > 0)

\* invItem.save() as the handler calls it: found is what findOne returned.  A
\* new document is inserted; a loaded one has its modified paths written to the
\* stored document, whatever that holds by now
saveDocument(coll, doc, found) ==
    IF found = Null
    THEN Append(coll, doc)
    ELSE [i \in DOMAIN coll |->
            IF coll[i].id = doc.id
            THEN [f \in DOMAIN coll[i] |->
                    IF f \in ModifiedPaths(doc, found) THEN doc[f] ELSE coll[i][f]]
            ELSE coll[i]]

(***************************************************************************)
(* The server's inventory adjustment for one line item                     *)
(* (server.js lines 44-70), up to the point where save() is issued.        *)
(***************************************************************************)
\* the key taken without trim()
productIdUntrimmed(item) == toLowerCase(item.description)

productId(item) == ProductKey(item.description)

\* new Inventory({...}), server.js lines 48-55
NewInventory(transaction, item) ==
    [id |-> productId(item), name |-> item.description, quantity |-> 0,
     averageCost |-> FracOfInt(0), sellingPrice |-> 0,
     lastUpdated |-> transaction.date]

\* a purchase that overwrites the cost with the latest price instead of averaging
AdjustInventoryLatestCost(invItem, transaction, item) ==
    LET adjusted ==
          IF transaction.type = "PURCHASE" THEN
              [invItem EXCEPT !.quantity = @ + item.quantity,
                              !.averageCost = IF invItem.quantity + item.quantity > 0
                                              THEN FracOfInt(item.price) ELSE @]
          ELSE IF transaction.type = "SALE" THEN
              [invItem EXCEPT !.quantity = @ - item.quantity,
                              !.sellingPrice = item.price]
          ELSE invItem
    IN [adjusted EXCEPT !.lastUpdated = transaction.date]

\* a sale that also moves the cost basis to the sale price
AdjustInventorySaleSetsCost(invItem, transaction, item) ==
    LET adjusted ==
          IF transaction.type = "PURCHASE" THEN
              LET currentTotalValue == FracTimesInt(invItem.averageCost, invItem.quantity)
                  newItemsValue == item.quantity * item.price
                  quantity == invItem.quantity + item.quantity
              IN [invItem EXCEPT
                    !.quantity = quantity,
                    !.averageCost =
                        IF quantity > 0
                        THEN FracDivInt(FracPlusInt(currentTotalValue, newItemsValue), quantity)
                        ELSE @]
          ELSE IF transaction.type = "SALE" THEN
              [invItem EXCEPT !.quantity = @ - item.quantity,
                              !.sellingPrice = item.price,
                              !.averageCost = FracOfInt(item.price)]
          ELSE invItem
    IN [adjusted EXCEPT !.lastUpdated = transaction.date]

\* a purchase that decides on the quantity before the purchase
AdjustInventoryGuardsOldQuantity(invItem, transaction, item) ==
    LET adjusted ==
          IF transaction.type = "PURCHASE" THEN
              LET currentTotalValue == FracTimesInt(invItem.averageCost, invItem.quantity)
                  newItemsValue == item.quantity * item.price
                  quantity == invItem.quantity + item.quantity
              IN [invItem EXCEPT
                    !.quantity = quantity,
                    !.averageCost =
                        IF invItem.quantity > 0
                        THEN FracDivInt(FracPlusInt(currentTotalValue, newItemsValue), quantity)
                        ELSE @]
          ELSE IF transaction.type = "SALE" THEN
              [invItem EXCEPT !.quantity = @ - item.quantity,
                              !.sellingPrice = item.price]
          ELSE invItem
    IN [adjusted EXCEPT !.lastUpdated = transaction.date]

\* an adjustment that also takes the display name from the line item
AdjustInventoryRenames(invItem, transaction, item) ==
    LET adjusted ==
          IF transaction.type = "PURCHASE" THEN
              LET currentTotalValue == FracTimesInt(invItem.averageCost, invItem.quantity)
                  newItemsValue == item.quantity * item.price
                  quantity == invItem.quantity + item.quantity
              IN [invItem EXCEPT
                    !.quantity = quantity,
                    !.averageCost =
                        IF quantity > 0
                        THEN FracDivInt(FracPlusInt(currentTotalValue, newItemsValue), quantity)
                        ELSE @]
          ELSE IF transaction.type = "SALE" THEN
              [invItem EXCEPT !.quantity = @ - item.quantity,
                              !.sellingPrice = item.price]
          ELSE invItem
    IN [adjusted EXCEPT !.lastUpdated = transaction.date, !.name = item.description]

\* a sale that stops at an empty stock
AdjustInventoryClampsSale(invItem, transaction, item) ==
    LET adjusted ==
          IF transaction.type = "PURCHASE" THEN
              LET currentTotalValue == FracTimesInt(invItem.averageCost, invItem.quantity)
                  newItemsValue == item.quantity * item.price
                  quantity == invItem.quantity + item.quantity
              IN [invItem EXCEPT
                    !.quantity = quantity,
                    !.averageCost =
                        IF quantity > 0
                        THEN FracDivInt(FracPlusInt(currentTotalValue, newItemsValue), quantity)
                        ELSE @]
          ELSE IF transaction.type = "SALE" THEN
              [invItem EXCEPT !.quantity = IF @ - item.quantity < 0 THEN 0
                                           ELSE @ - item.quantity,
                              !.sellingPrice = item.price]
          ELSE invItem
    IN [adjusted EXCEPT !.lastUpdated = transaction.date]

\* a purchase that also records its price as the selling price
AdjustInventoryPricesPurchase(invItem, transaction, item) ==
    LET adjusted ==
          IF transaction.type = "PURCHASE" THEN
              LET currentTotalValue == FracTimesInt(invItem.averageCost, invItem.quantity)
                  newItemsValue == item.quantity * item.price
                  quantity == invItem.quantity + item.quantity
              IN [invItem EXCEPT
                    !.quantity = quantity,
                    !.sellingPrice = item.price,
                    !.averageCost =
                        IF quantity > 0
                        THEN FracDivInt(FracPlusInt(currentTotalValue, newItemsValue), quantity)
                        ELSE @]
          ELSE IF transaction.type = "SALE" THEN
              [invItem EXCEPT !.quantity = @ - item.quantity,
                              !.sellingPrice = item.price]
          ELSE invItem
    IN [adjusted EXCEPT !.lastUpdated = transaction.date]

\* server.js lines 58-70 on the loaded (or new) document
AdjustInventory(invItem, transaction, item) ==
    LET adjusted ==
          IF transaction.type = "PURCHASE" THEN
              LET currentTotalValue == FracTimesInt(invItem.averageCost, invItem.quantity)
                  newItemsValue == item.quantity * item.price
                  quantity == invItem.quantity + item.quantity
              IN [invItem EXCEPT
                    !.quantity = quantity,
                    !.averageCost =
                        IF quantity > 0
                        THEN FracDivInt(FracPlusInt(currentTotalValue, newItemsValue), quantity)
                        ELSE @]
          ELSE IF transaction.type = "SALE" THEN
              [invItem EXCEPT !.quantity = @ - item.quantity,
                              !.sellingPrice = item.price]
          ELSE invItem
    IN [adjusted EXCEPT !.lastUpdated = transaction.date]

\* the loaded document ignored: every line item starts from a new document
InventoryStepAlwaysNew(inventory, transaction, item) ==
    AdjustInventory(NewInventory(transaction, item), transaction, item)

\* the loaded document counted from an empty stock
InventoryStepFromZero(inventory, transaction, item) ==
    LET found == findOne(inventory, productId(item))
        invItem == IF found = Null THEN NewInventory(transaction, item)
                   ELSE [found EXCEPT !.quantity = 0]
    IN AdjustInventory(invItem, transaction, item)

\* server.js lines 44-70: the document handed to save() for one line item
InventoryStep(inventory, transaction, item) ==
    LET found == findOne(inventory, productId(item))
        invItem == IF found = Null THEN NewInventory(transaction, item) ELSE found
    IN AdjustInventory(invItem, transaction, item)

\* server.js lines 43-72 with every await succeeding: items in list order
RECURSIVE AdjustAll(_, _, _)
AdjustAll(inventory, transaction, i) ==
    IF i > Len(transaction.items) THEN inventory
    ELSE AdjustAll(save(inventory, InventoryStep(inventory, transaction, transaction.items[i])),
                   transaction, i + 1)

\* POST /api/transactions when no storage call fails: the two collections afterwards
PostTransaction(stores, transaction) ==
    LET existing == findOne(stores.Transaction, transaction.id)
    IN [Transaction |-> findOneAndUpdate(stores.Transaction, transaction),
        Inventory |-> IF existing = Null
                      THEN AdjustAll(stores.Inventory, transaction, 1)
                      ELSE stores.Inventory]

(***************************************************************************)
(* GET /api/transactions: Transaction.find().sort({ date: -1 }); documents *)
(* of equal date stay in collection order.                                 *)
(***************************************************************************)
RECURSIVE InsertByDateDesc(_, _)
InsertByDateDesc(sorted, t) ==
    IF sorted = <<>> THEN <<t>>
    ELSE IF Head(sorted).date >= t.date
         THEN <<Head(sorted)>> \o InsertByDateDesc(Tail(sorted), t)
         ELSE <<t>> \o sorted

RECURSIVE SortByDateDesc(_)
SortByDateDesc(list) ==
    IF list = <<>> THEN <<>>
    ELSE InsertByDateDesc(SortByDateDesc(SubSeq(list, 1, Len(list) - 1)), list[Len(list)])

GetTransactions(collection) == SortByDateDesc(collection)

(***************************************************************************)
(* The client's derivation of the inventory from its transaction list      *)
(* (App, "Derive Inventory from Transactions" effect).                     *)
(***************************************************************************)
\* [...transactions].sort((a, b) => date(a) - date(b)): Array.prototype.sort is stable
RECURSIVE InsertByDateAsc(_, _)
InsertByDateAsc(sorted, t) ==
    IF sorted = <<>> THEN <<t>>
    ELSE IF Head(sorted).date <= t.date
         THEN <<Head(sorted)>> \o InsertByDateAsc(Tail(sorted), t)
         ELSE <<t>> \o sorted

RECURSIVE sortedTransactions(_)
sortedTransactions(list) ==
    IF list = <<>> THEN <<>>
    ELSE InsertByDateAsc(sortedTransactions(SubSeq(list, 1, Len(list) - 1)), list[Len(list)])

key(item) == toLowerCase(trim(item.description))

\* the body of inv.items.forEach for one item; newInventory lists its entries in
\* the order their keys were created, the order Object.values returns them in
DeriveItem(newInventory, inv, item) ==
    LET k == key(item)
        present == \E i \in DOMAIN newInventory : newInventory[i].id = k
        withKey == IF present THEN newInventory
                   ELSE Append(newInventory,
                               [id |-> k, name |-> item.description, quantity |-> 0,
                                averageCost |-> FracOfInt(0), sellingPrice |-> 0,
                                lastUpdated |-> inv.date])
        at == CHOOSE i \in DOMAIN withKey : withKey[i].id = k
        old == withKey[at]
        new == IF inv.type = "PURCHASE" THEN
                   LET currentTotalValue == FracTimesInt(old.averageCost, old.quantity)
                       newItemsValue == item.quantity * item.price
                       quantity == old.quantity + item.quantity
                   IN [old EXCEPT
                         !.quantity = quantity,
                         !.averageCost =
                             IF quantity > 0
                             THEN FracDivInt(FracPlusInt(currentTotalValue, newItemsValue),
                                             quantity)
                             ELSE @]
               ELSE IF inv.type = "SALE" THEN
                   [old EXCEPT !.quantity = @ - item.quantity,
                               !.sellingPrice = item.price]
               ELSE old
    IN [withKey EXCEPT ![at] = [new EXCEPT !.lastUpdated = inv.date]]

RECURSIVE DeriveItems(_, _, _)
DeriveItems(newInventory, inv, i) ==
    IF i > Len(inv.items) THEN newInventory
    ELSE DeriveItems(DeriveItem(newInventory, inv, inv.items[i]), inv, i + 1)

RECURSIVE DeriveFrom(_, _, _)
DeriveFrom(newInventory, sorted, n) ==
    IF n > Len(sorted) THEN newInventory
    ELSE DeriveFrom(DeriveItems(newInventory, sorted[n], 1), sorted, n + 1)

\* the inventory list handed to setInventory
DeriveInventory(list) == DeriveFrom(<<>>, sortedTransactions(list), 1)

(***************************************************************************)
(* State.                                                                  *)
(*   Transaction, Inventory  the two MongoDB collections                   *)
(*   req    the request each handler invocation is serving and where it is *)
(*   ops    requests issued so far                                         *)
(*   last   the request that completed most recently: what it was, its     *)
(*          response, and the collections as they were when it arrived     *)
(*   prev   the request that completed before last                         *)
(*   app    the state of the App component in the browser: its transactions *)
(*          and inventory lists                                            *)
(*   chat   the state of the ChatAssistant component, and the requests it   *)
(*          has sent that are not answered yet                             *)
(***************************************************************************)
VARIABLES Transaction, Inventory, req, ops, last, prev, app, chat

vars == <<Transaction, Inventory, req, ops, last, prev, app, chat>>

\* handler invocations that can be in flight at once; Workers are those the
\* one-request-at-a-time specifications use
Handlers == {"w1", "w2"}

Workers == {"w1"}

Idle ==
    [pc |-> "idle", op |-> "none", transaction |-> Null, existing |-> Null,
     i |-> 0, found |-> Null, invItem |-> Null, before |-> Null]

NoRequest ==
    [op |-> "none", transaction |-> Null, status |-> 0, body |-> Null, before |-> Null]

Stores == [Transaction |-> Transaction, Inventory |-> Inventory]

\* App: useState([]) for transactions and inventory; loaded is set once
\* fetchData has run
\* view is what the component on screen last computed from the lists
AppMounted ==
    [transactions |-> <<>>, inventory |-> <<>>, loaded |-> FALSE, view |-> Null]

\* ChatAssistant: useState for input, isLoading and messages (the greeting);
\* requests are the getChatResponse calls awaiting their answer, sends the
\* submissions of the form so far
ChatMounted ==
    [input |-> <<>>, isLoading |-> FALSE,
     messages |-> <<[role |-> "model", content |-> "greeting"]>>,
     requests |-> <<>>, sends |-> 0]

\* no request is being handled
Quiet == \A w \in Handlers : req[w].pc = "idle"

Init ==
    /\ Transaction = <<>>
    /\ Inventory = <<>>
    /\ req = [w \in Handlers |-> Idle]
    /\ ops = 0
    /\ last = NoRequest
    /\ prev = NoRequest
    /\ app = AppMounted
    /\ chat = ChatMounted

\* the transactions a caller submits to the request handlers: a one-line and a
\* two-line item list, under either id, type and date
RequestItemLists ==
    { <<[description |-> <<"A", "b">>, quantity |-> 2, price |-> 3]>>,
      <<[description |-> <<"a", "b">>, quantity |-> 1, price |-> 1],
        [description |-> <<"M">>, quantity |-> 1, price |-> 3]>> }

Submissions ==
    {Txn(id, type, date, items) :
        id \in TxIds, type \in Types, date \in Dates, items \in RequestItemLists}

\* res.json(body) / res.status(500).json(...): the handler returns
Respond(w, status, body) ==
    /\ last' = [op |-> req[w].op, transaction |-> req[w].transaction,
                status |-> status, body |-> body, before |-> req[w].before]
    /\ prev' = last
    /\ req' = [req EXCEPT ![w] = Idle]

(***************************************************************************)
(* POST /api/transactions, server.js lines 34-87, one step per await.      *)
(***************************************************************************)
\* line 36: the request arrives
PostArrives(w, transaction) ==
    /\ req[w].pc = "idle"
    /\ ops < MaxOps
    /\ ops' = ops + 1
    /\ req' = [req EXCEPT ![w] =
                 [Idle EXCEPT !.pc = "findTransaction", !.op = "POST",
                              !.transaction = transaction, !.before = Stores]]
    /\ UNCHANGED <<Transaction, Inventory, last, prev, app, chat>>

\* the existence check left out: inventory is adjusted for every submission
AdjustRegardless(existing, transaction) ==
    IF Len(transaction.items) > 0 THEN "findInventory" ELSE "upsert"

\* the line items passed over: the upsert follows the existence check
AfterExistenceCheckSkipsItems(existing, transaction) == "upsert"

\* the step after the existence check: the first item, or the upsert
AfterExistenceCheck(existing, transaction) ==
    IF existing = Null /\ Len(transaction.items) > 0 THEN "findInventory" ELSE "upsert"

\* line 39-43: await Transaction.findOne({ id: transaction.id })
PostFindTransaction(w) ==
    /\ req[w].pc = "findTransaction"
    /\ LET existing == findOne(Transaction, req[w].transaction.id)
       IN req' = [req EXCEPT ![w].existing = existing,
                             ![w].i = 1,
                             ![w].pc = AfterExistenceCheck(existing, req[w].transaction)]
    /\ UNCHANGED <<Transaction, Inventory, ops, last, prev, app, chat>>

\* the line item carries a description string
HasDescription(item) == "description" \in DOMAIN item

\* line 44 on an item without description: item.description is undefined and
\* .trim() throws a TypeError, caught at lines 83-86
PostItemThrows(w) ==
    /\ req[w].pc = "findInventory"
    /\ ~HasDescription(req[w].transaction.items[req[w].i])
    /\ Respond(w, 500, [message |-> "TypeError"])
    /\ UNCHANGED <<Transaction, Inventory, ops, app, chat>>

\* lines 44-71: await Inventory.findOne resolves; the document is created if
\* absent, adjusted, and save() is issued
PostFindInventory(w) ==
    /\ req[w].pc = "findInventory"
    /\ HasDescription(req[w].transaction.items[req[w].i])
    /\ req' = [req EXCEPT
                 ![w].found = findOne(Inventory,
                                      productId(req[w].transaction.items[req[w].i])),
                 ![w].invItem = InventoryStep(Inventory, req[w].transaction,
                                              req[w].transaction.items[req[w].i]),
                 ![w].pc = "saveInventory"]
    /\ UNCHANGED <<Transaction, Inventory, ops, last, prev, app, chat>>

\* the insert of a new document meets a stored document of the same id: the
\* unique index on id rejects it
DuplicateKey(w) ==
    /\ req[w].found = Null
    /\ findOne(Inventory, req[w].invItem.id) # Null

\* line 71: await invItem.save() rejects with a duplicate key error, caught at
\* lines 83-86
PostSaveDuplicate(w) ==
    /\ req[w].pc = "saveInventory"
    /\ DuplicateKey(w)
    /\ Respond(w, 500, [message |-> "duplicate key"])
    /\ UNCHANGED <<Transaction, Inventory, ops, app, chat>>

\* line 71: await invItem.save() resolves; the loop goes to the next item
PostSaveInventory(w) ==
    /\ req[w].pc = "saveInventory"
    /\ ~DuplicateKey(w)
    /\ Inventory' = saveDocument(Inventory, req[w].invItem, req[w].found)
    /\ req' = [req EXCEPT
                 ![w].i = @ + 1,
                 ![w].found = Null,
                 ![w].invItem = Null,
                 ![w].pc = IF req[w].i < Len(req[w].transaction.items)
                           THEN "findInventory" ELSE "upsert"]
    /\ UNCHANGED <<Transaction, ops, last, prev, app, chat>>

\* lines 76-82: await Transaction.findOneAndUpdate resolves; res.json
PostUpsert(w) ==
    /\ req[w].pc = "upsert"
    /\ Transaction' = findOneAndUpdate(Transaction, req[w].transaction)
    /\ Respond(w, 200, [transaction |-> req[w].transaction])
    /\ UNCHANGED <<Inventory, ops, app, chat>>

(***************************************************************************)
(* DELETE /api/transactions/:id, server.js lines 90-97.                    *)
(***************************************************************************)
DeleteArrives(w, id) ==
    /\ req[w].pc = "idle"
    /\ ops < MaxOps
    /\ ops' = ops + 1
    /\ req' = [req EXCEPT ![w] =
                 [Idle EXCEPT !.pc = "deleteOne", !.op = "DELETE",
                              !.transaction = [id |-> id], !.before = Stores]]
    /\ UNCHANGED <<Transaction, Inventory, last, prev, app, chat>>

\* lines 92-93
DeleteTransaction(w) ==
    /\ req[w].pc = "deleteOne"
    /\ Transaction' = deleteOne(Transaction, req[w].transaction.id)
    /\ Respond(w, 200, [success |-> TRUE])
    /\ UNCHANGED <<Inventory, ops, app, chat>>

(***************************************************************************)
(* POST /api/inventory, server.js lines 99-112.                            *)
(***************************************************************************)
\* the inventory records a caller posts: the stock of "ab" set to zero, and a
\* record for "m"
InventoryItems ==
    { [id |-> <<"a", "b">>, name |-> <<"A", "b">>, quantity |-> 0,
       averageCost |-> <<3, 1>>, sellingPrice |-> 0, lastUpdated |-> 1],
      [id |-> <<"m">>, name |-> <<"M">>, quantity |-> 4,
       averageCost |-> <<1, 1>>, sellingPrice |-> 2, lastUpdated |-> 2] }

\* line 102: the request arrives
InventoryArrives(w, item) ==
    /\ req[w].pc = "idle"
    /\ ops < MaxOps
    /\ ops' = ops + 1
    /\ req' = [req EXCEPT ![w] =
                 [Idle EXCEPT !.pc = "upsertInventory", !.op = "INVENTORY",
                              !.transaction = item, !.before = Stores]]
    /\ UNCHANGED <<Transaction, Inventory, last, prev, app, chat>>

\* lines 103-108
InventoryUpsert(w) ==
    /\ req[w].pc = "upsertInventory"
    /\ Inventory' = findOneAndUpdate(Inventory, req[w].transaction)
    /\ Respond(w, 200, [item |-> req[w].transaction])
    /\ UNCHANGED <<Transaction, ops, app, chat>>

(***************************************************************************)
(* A storage call rejects (database unreachable): the catch blocks,        *)
(* server.js lines 83-86, 94-96 and 109-111, answer 500.                   *)
(***************************************************************************)
StorageFailure(w) ==
    /\ req[w].pc \in {"findTransaction", "findInventory", "saveInventory",
                      "upsert", "deleteOne", "upsertInventory"}
    /\ Respond(w, 500, [message |-> "error"])
    /\ UNCHANGED <<Transaction, Inventory, ops, app, chat>>

Next ==
    \E w \in Workers :
        \/ \E transaction \in Submissions : PostArrives(w, transaction)
        \/ PostFindTransaction(w)
        \/ PostFindInventory(w)
        \/ PostSaveInventory(w)
        \/ PostUpsert(w)
        \/ \E id \in TxIds : DeleteArrives(w, id)
        \/ DeleteTransaction(w)
        \/ \E item \in InventoryItems : InventoryArrives(w, item)
        \/ InventoryUpsert(w)
        \/ StorageFailure(w)

Spec == Init /\ [][Next]_vars

(***************************************************************************)
(* The handlers given request bodies that nothing has validated: line      *)
(* items may lack their description.  No storage call fails here.          *)
(***************************************************************************)
UncheckedItemLists ==
    LET good == [description |-> <<"A", "b">>, quantity |-> 1, price |-> 3]
        bad == [quantity |-> 1, price |-> 3]
    IN { <<good>>, <<bad>>, <<good, bad>> }

UncheckedSubmissions ==
    {Txn(id, type, date, items) :
        id \in TxIds, type \in Types, date \in {1}, items \in UncheckedItemLists}

NextUnchecked ==
    \E w \in Workers :
        \/ \E transaction \in UncheckedSubmissions : PostArrives(w, transaction)
        \/ PostFindTransaction(w)
        \/ PostFindInventory(w)
        \/ PostItemThrows(w)
        \/ PostSaveInventory(w)
        \/ PostUpsert(w)

SpecUnchecked == Init /\ [][NextUnchecked]_vars

(***************************************************************************)
(* Two handler invocations in flight: Node runs one until its next await,  *)
(* then either may continue.  Each request carries an id not used before;  *)
(* every line item has the key "ab".  No storage call fails.               *)
(***************************************************************************)
RaceItemLists ==
    { <<[description |-> <<"A", "b">>, quantity |-> 1, price |-> 3]>>,
      <<[description |-> <<"A", "b">>, quantity |-> 1, price |-> 3],
        [description |-> <<"a", "B">>, quantity |-> 2, price |-> 1]>> }

RaceSubmissions ==
    {Txn(<<"t1", "t2", "t3", "t4", "t5">>[ops + 1], type, 1, items) :
        type \in Types, items \in RaceItemLists}

NextRace ==
    \E w \in Handlers :
        \/ \E transaction \in RaceSubmissions : PostArrives(w, transaction)
        \/ PostFindTransaction(w)
        \/ PostFindInventory(w)
        \/ PostSaveDuplicate(w)
        \/ PostSaveInventory(w)
        \/ PostUpsert(w)

SpecRace == Init /\ [][NextRace]_vars

\* the same requests, one handled to its end before the next arrives
NextItems ==
    \E w \in Workers :
        \/ \E transaction \in RaceSubmissions : PostArrives(w, transaction)
        \/ PostFindTransaction(w)
        \/ PostFindInventory(w)
        \/ PostSaveInventory(w)
        \/ PostUpsert(w)

SpecItems == Init /\ [][NextItems]_vars

(***************************************************************************)
(* Two handler invocations in flight, the requests drawn from both ids: a  *)
(* client that sends a request again before the first was answered has two *)
(* submissions of one id in flight.  No storage call fails.                *)
(***************************************************************************)
ResentSubmissions ==
    {Txn(id, type, 1, items) :
        id \in TxIds, type \in Types, items \in RequestItemLists}

NextResent ==
    \E w \in Handlers :
        \/ \E transaction \in ResentSubmissions : PostArrives(w, transaction)
        \/ PostFindTransaction(w)
        \/ PostFindInventory(w)
        \/ PostSaveDuplicate(w)
        \/ PostSaveInventory(w)
        \/ PostUpsert(w)

SpecResent == Init /\ [][NextResent]_vars

(***************************************************************************)
(* Sequences of requests, each handled to its end before the next arrives  *)
(* and none failing: submissions under either id and deletions.            *)
(***************************************************************************)
\* POST /api/transactions, server.js lines 34-87, answered 200
Submit(transaction) ==
    /\ Quiet
    /\ ops < MaxLife
    /\ ops' = ops + 1
    /\ LET after == PostTransaction(Stores, transaction)
       IN /\ Transaction' = after.Transaction
          /\ Inventory' = after.Inventory
    /\ last' = [op |-> "POST", transaction |-> transaction, status |-> 200,
                body |-> [transaction |-> transaction], before |-> Stores]
    /\ prev' = last
    /\ UNCHANGED <<req, app, chat>>

\* DELETE /api/transactions/:id, server.js lines 90-97, answered 200
Remove(id) ==
    /\ Quiet
    /\ ops < MaxLife
    /\ ops' = ops + 1
    /\ Transaction' = deleteOne(Transaction, id)
    /\ last' = [op |-> "DELETE", transaction |-> [id |-> id], status |-> 200,
                body |-> [success |-> TRUE], before |-> Stores]
    /\ prev' = last
    /\ UNCHANGED <<Inventory, req, app, chat>>

NextLifecycle ==
    \/ \E transaction \in Submissions : Submit(transaction)
    \/ \E id \in TxIds : Remove(id)

SpecLifecycle == Init /\ [][NextLifecycle]_vars

(***************************************************************************)
(* The invoice form in front of the server: InvoiceForm.handleSubmit builds *)
(* the invoice, App.saveTransaction posts it.  Other callers post bodies   *)
(* with a totalAmount of their own.  Every request is handled to its end   *)
(* and none fails.                                                         *)
(***************************************************************************)
RECURSIVE SumSeq(_)
SumSeq(numbers) ==
    IF numbers = <<>> THEN 0 ELSE Head(numbers) + SumSeq(Tail(numbers))

\* a total that adds up the unit prices
calculateTotalOfPrices(items) ==
    SumSeq([i \in DOMAIN items |-> items[i].price])

\* InvoiceForm.calculateTotal: items.reduce((sum, item) => sum + item.quantity * item.price, 0)
calculateTotal(items) ==
    SumSeq([i \in DOMAIN items |-> items[i].quantity * items[i].price])

\* InvoiceForm.handleSubmit: the invoice handed to onSave; initialData is the
\* transaction being edited or Null, now stands for Date.now().toString()
handleSubmit(initialData, type, date, items, now) ==
    [id |-> IF initialData # Null THEN initialData.id ELSE now,
     type |-> IF initialData # Null THEN initialData.type ELSE type,
     date |-> date,
     items |-> items,
     totalAmount |-> calculateTotal(items)]

\* setTransactions(list) and the effect that follows it: the inventory is
\* derived anew from the list (part_000 lines 108-149)
setTransactions(list) ==
    [app EXCEPT !.transactions = list, !.inventory = DeriveInventory(list)]

\* a saved transaction appended to the end of the list
savedAppended(list, savedTransaction) ==
    IF \E i \in DOMAIN list : list[i].id = savedTransaction.id
    THEN [i \in DOMAIN list |->
            IF list[i].id = savedTransaction.id THEN savedTransaction ELSE list[i]]
    ELSE Append(list, savedTransaction)

\* the updater of App.saveTransaction, part_000 lines 154-160: the saved
\* transaction replaces the one of its id or goes to the front of the list
savedIntoList(list, savedTransaction) ==
    IF \E i \in DOMAIN list : list[i].id = savedTransaction.id
    THEN [i \in DOMAIN list |->
            IF list[i].id = savedTransaction.id THEN savedTransaction ELSE list[i]]
    ELSE <<savedTransaction>> \o list

\* the form is submitted, for a new invoice or for a stored one being edited,
\* the server handles the POST and App.saveTransaction puts the answer in
\* its list
FormSubmit(initialData, type, date, items) ==
    /\ Quiet
    /\ ops < MaxLife
    /\ ops' = ops + 1
    /\ LET invoice == handleSubmit(initialData, type, date, items,
                                   <<"t1", "t2", "t3", "t4", "t5">>[ops + 1])
           after == PostTransaction(Stores, invoice)
       IN /\ Transaction' = after.Transaction
          /\ Inventory' = after.Inventory
          /\ last' = [op |-> "FORM", transaction |-> invoice, status |-> 200,
                      body |-> [transaction |-> invoice], before |-> Stores]
          /\ app' = setTransactions(savedIntoList(app.transactions, invoice))
    /\ prev' = last
    /\ UNCHANGED <<req, chat>>

\* request bodies of callers other than the form
DirectSubmissions ==
    {[id |-> id, type |-> "PURCHASE", date |-> 1,
      items |-> <<[description |-> <<"A", "b">>, quantity |-> 2, price |-> 3]>>,
      totalAmount |-> totalAmount] :
        id \in TxIds, totalAmount \in {0, 6}}

NextForm ==
    \/ \E initialData \in Range(Transaction) \cup {Null}, type \in Types,
          items \in RequestItemLists :
            FormSubmit(initialData, type, 1, items)
    \/ \E transaction \in DirectSubmissions : Submit(transaction)

SpecForm == Init /\ [][NextForm]_vars

(***************************************************************************)
(* The App component on start-up: fetchData, part_000 lines 64-105, with   *)
(* MongoService.getTransactions, Reports.tsx lines 267-278.                *)
(***************************************************************************)
\* the demo transactions, part_000 lines 69-92; dates as day of the month
seed ==
    << [id |-> "1", type |-> "PURCHASE", date |-> 15,
        items |-> <<[description |-> <<"L", "a", "p", "t", "o", "p", "s">>,
                     quantity |-> 5, price |-> 30000]>>,
        totalAmount |-> 150000],
       [id |-> "2", type |-> "SALE", date |-> 20,
        items |-> <<[description |-> <<"L", "a", "p", "t", "o", "p", "s">>,
                     quantity |-> 1, price |-> 35000]>>,
        totalAmount |-> 35000] >>

\* MongoService.getTransactions: the list the server answers, or [] when the
\* request fails (the catch at lines 274-277)
getTransactions(collection, ok) ==
    IF ok THEN GetTransactions(collection) ELSE <<>>

\* the collections after the first n seed transactions were posted
RECURSIVE Seeded(_, _)
Seeded(stores, n) ==
    IF n = 0 THEN stores ELSE PostTransaction(Seeded(stores, n - 1), seed[n])

\* fetchData runs once after mounting.  ok: the GET succeeds; saved: how many
\* of the seed POSTs succeed before one fails (a failed saveTransaction
\* throws and ends fetchData before setTransactions)
FetchData(ok, saved) ==
    /\ Quiet
    /\ ~app.loaded
    /\ LET data == getTransactions(Transaction, ok)
       IN IF Len(data) = 0
          THEN /\ Transaction' = Seeded(Stores, saved).Transaction
               /\ Inventory' = Seeded(Stores, saved).Inventory
               /\ app' = IF saved = Len(seed)
                         THEN [setTransactions(seed) EXCEPT !.loaded = TRUE]
                         ELSE [app EXCEPT !.loaded = TRUE]
          ELSE /\ saved = Len(seed)
               /\ UNCHANGED <<Transaction, Inventory>>
               /\ app' = [setTransactions(data) EXCEPT !.loaded = TRUE]
    /\ UNCHANGED <<req, ops, last, prev, chat>>

\* the page is loaded again: the components are mounted anew
Reload ==
    /\ Quiet
    /\ app.loaded
    /\ app' = AppMounted
    /\ chat' = ChatMounted
    /\ UNCHANGED <<Transaction, Inventory, req, ops, last, prev>>

\* start-up, with the load and the seed POSTs succeeding or failing, invoices
\* entered through the form, and the page loaded again
NextStart ==
    \/ \E ok \in BOOLEAN, saved \in 0..Len(seed) : FetchData(ok, saved)
    \/ \E initialData \in Range(Transaction) \cup {Null}, type \in Types,
          items \in RequestItemLists :
            FormSubmit(initialData, type, 1, items)
    \/ Reload

SpecStart == Init /\ [][NextStart]_vars

(***************************************************************************)
(* ChatAssistant, ChatAssistant.tsx lines 34-58 and 129-142.               *)
(***************************************************************************)
\* what the user types: nothing, a blank, a word, a word after a blank
ChatInputs == { <<>>, <<" ">>, <<"h", "i">>, <<" ", "o", "k">> }

\* what getChatResponse resolves with, geminiService.ts lines 228-232: the
\* text of the answer, the text put in place of an empty answer, or the text
\* of its catch block.  It catches every error itself, so the promise does
\* not reject and the catch block of handleSend (line 53) is not entered.
Replies == {"result.text", "couldn't process that", "trouble connecting"}

\* a handleSend that looks at the input only
handleSendWhileLoading(state) ==
    IF trim(state.input) = <<>> THEN state
    ELSE [state EXCEPT
            !.messages = Append(@, [role |-> "user", content |-> state.input]),
            !.input = <<>>,
            !.isLoading = TRUE,
            !.requests = Append(@, [history |-> state.messages,
                                    message |-> state.input])]

\* handleSend up to its await, lines 34-49: the state of the component and
\* the request issued
handleSend(state) ==
    IF trim(state.input) = <<>> \/ state.isLoading THEN state
    ELSE [state EXCEPT
            !.messages = Append(@, [role |-> "user", content |-> state.input]),
            !.input = <<>>,
            !.isLoading = TRUE,
            !.requests = Append(@, [history |-> state.messages,
                                    message |-> state.input])]

\* line 133: onChange of the input field
TypeInput(text) ==
    /\ chat.input # text
    /\ chat' = [chat EXCEPT !.input = text]
    /\ UNCHANGED <<Transaction, Inventory, req, ops, last, prev, app>>

\* line 129: the form is submitted
Send ==
    /\ chat.sends < MaxChat
    /\ chat' = [handleSend(chat) EXCEPT !.sends = @ + 1]
    /\ UNCHANGED <<Transaction, Inventory, req, ops, last, prev, app>>

\* lines 49-56: the awaited getChatResponse resolves; the answer is appended
\* and the finally block clears isLoading
ChatResolves(i, responseText) ==
    /\ i \in DOMAIN chat.requests
    /\ chat' = [chat EXCEPT
                  !.messages = Append(@, [role |-> "model", content |-> responseText]),
                  !.isLoading = FALSE,
                  !.requests = SubSeq(@, 1, i - 1) \o SubSeq(@, i + 1, Len(@))]
    /\ UNCHANGED <<Transaction, Inventory, req, ops, last, prev, app>>

SomeChatResolves ==
    \E i \in DOMAIN chat.requests, responseText \in Replies :
        ChatResolves(i, responseText)

NextChat ==
    \/ \E text \in ChatInputs : TypeInput(text)
    \/ Send
    \/ SomeChatResolves

SpecChat == Init /\ [][NextChat]_vars

\* a request that was issued is answered: the promise of getChatResponse
\* settles, with the answer or with the text of its catch block
SpecChatFair == SpecChat /\ WF_vars(SomeChatResolves)

(***************************************************************************)
(* The components that read the lists of App.  Each operator gives what    *)
(* the code returns together with the two arrays it was handed as they are *)
(* when it ends: an in-place Array method on an argument would show there. *)
(***************************************************************************)
RECURSIVE SumAmounts(_)
SumAmounts(list) ==
    IF list = <<>> THEN 0 ELSE Head(list).totalAmount + SumAmounts(Tail(list))

\* Dashboard stats, Dashboard.tsx lines 12-24: filter and reduce
DashboardStats(transactions, inventory) ==
    LET sales == SelectSeq(transactions, LAMBDA t : t.type = "SALE")
        purchases == SelectSeq(transactions, LAMBDA t : t.type = "PURCHASE")
        totalRevenue == SumAmounts(sales)
        totalExpenses == SumAmounts(purchases)
    IN [returned |-> [totalRevenue |-> totalRevenue, totalExpenses |-> totalExpenses,
                      netProfit |-> totalRevenue - totalExpenses],
        transactions |-> transactions, inventory |-> inventory]

\* the periods of the chart in ascending order: Object.values(map).sort(...)
\* on the array of month entries
RECURSIVE PeriodsAscending(_)
PeriodsAscending(periods) ==
    IF periods = {} THEN <<>>
    ELSE LET first == CHOOSE d \in periods : \A e \in periods : d <= e
         IN <<first>> \o PeriodsAscending(periods \ {first})

\* Reports chartData, Reports.tsx lines 38-85: one entry per period with the
\* sales and the expenses of its transactions; a period is a date here
chartData(transactions, inventory) ==
    LET periods == PeriodsAscending({t.date : t \in Range(transactions)})
        entry(d) ==
            [name |-> d,
             sales |-> SumAmounts(SelectSeq(transactions,
                           LAMBDA t : t.date = d /\ t.type = "SALE")),
             expenses |-> SumAmounts(SelectSeq(transactions,
                           LAMBDA t : t.date = d /\ t.type # "SALE"))]
    IN [returned |-> [i \in DOMAIN periods |-> entry(periods[i])],
        transactions |-> transactions, inventory |-> inventory]

\* generateBusinessReport, geminiService.ts lines 62-186: the figures put in
\* the prompt; recentActivity is transactions.slice(0, 8)
generateBusinessReport(transactions, inventory) ==
    LET sales == SelectSeq(transactions, LAMBDA t : t.type = "SALE")
        purchases == SelectSeq(transactions, LAMBDA t : t.type = "PURCHASE")
        outOfStockItems == SelectSeq(inventory, LAMBDA i : i.quantity <= 0)
        lowStockItems == SelectSeq(inventory, LAMBDA i : i.quantity > 0 /\ i.quantity <= 5)
        recentActivity == SubSeq(transactions, 1,
                                 IF Len(transactions) < 8 THEN Len(transactions) ELSE 8)
    IN [returned |-> [totalRevenue |-> SumAmounts(sales),
                      totalExpense |-> SumAmounts(purchases),
                      outOfStock |-> Len(outOfStockItems),
                      lowStock |-> Len(lowStockItems),
                      recentActivity |-> [i \in DOMAIN recentActivity |->
                                             recentActivity[i].id]],
        transactions |-> transactions, inventory |-> inventory]

\* getChatResponse, geminiService.ts lines 188-233: the context put in the
\* system instruction
getChatResponse(transactions, inventory) ==
    [returned |-> [inventoryContext |-> [i \in DOMAIN inventory |->
                                            <<inventory[i].name, inventory[i].quantity,
                                              inventory[i].sellingPrice>>],
                   count |-> Len(transactions)],
     transactions |-> transactions, inventory |-> inventory]

\* s contains sub: String.prototype.includes
Includes(s, sub) ==
    \E i \in 1..(Len(s) - Len(sub) + 1) : SubSeq(s, i, i + Len(sub) - 1) = sub

\* the value the comparator of InventoryList reads, as a fraction
SortValue(item, sortConfig) ==
    IF sortConfig.key = "totalValue"
    THEN FracTimesInt(item.averageCost, item.quantity)
    ELSE FracOfInt(item[sortConfig.key])

\* the comparator, InventoryList.tsx lines 33-46
Compare(a, b, sortConfig) ==
    LET aValue == SortValue(a, sortConfig)
        bValue == SortValue(b, sortConfig)
    IN IF aValue[1] * bValue[2] < bValue[1] * aValue[2]
       THEN (IF sortConfig.direction = "asc" THEN 0 - 1 ELSE 1)
       ELSE IF aValue[1] * bValue[2] > bValue[1] * aValue[2]
       THEN (IF sortConfig.direction = "asc" THEN 1 ELSE 0 - 1)
       ELSE 0

\* Array.prototype.sort with the comparator: stable
RECURSIVE InsertSorted(_, _, _)
InsertSorted(sorted, x, sortConfig) ==
    IF sorted = <<>> THEN <<x>>
    ELSE IF Compare(Head(sorted), x, sortConfig) <= 0
         THEN <<Head(sorted)>> \o InsertSorted(Tail(sorted), x, sortConfig)
         ELSE <<x>> \o sorted

RECURSIVE SortItems(_, _)
SortItems(items, sortConfig) ==
    IF items = <<>> THEN <<>>
    ELSE InsertSorted(SortItems(SubSeq(items, 1, Len(items) - 1), sortConfig),
                      items[Len(items)], sortConfig)

\* a processedInventory that sorts the array it was handed
processedInventoryInPlace(inventory, searchTerm, sortConfig) ==
    LET filtered == IF searchTerm # <<>>
                    THEN SelectSeq(inventory,
                             LAMBDA item : Includes(toLowerCase(item.name),
                                                    toLowerCase(searchTerm)))
                    ELSE inventory
        items == IF sortConfig # Null THEN SortItems(filtered, sortConfig) ELSE filtered
    IN [returned |-> items,
        inventory |-> IF searchTerm = <<>> THEN items ELSE inventory]

\* InventoryList processedInventory, InventoryList.tsx lines 22-50: items is a
\* copy of inventory, filtered by the search term and sorted in place
processedInventory(inventory, searchTerm, sortConfig) ==
    LET copy == inventory
        filtered == IF searchTerm # <<>>
                    THEN SelectSeq(copy,
                             LAMBDA item : Includes(toLowerCase(item.name),
                                                    toLowerCase(searchTerm)))
                    ELSE copy
        items == IF sortConfig # Null THEN SortItems(filtered, sortConfig) ELSE filtered
    IN [returned |-> items, inventory |-> inventory]

\* a component computes its view from the lists of App
Shows(op, outcome) ==
    /\ app.loaded
    /\ app' = [app EXCEPT !.view = [op |-> op, returned |-> outcome.returned],
                          !.transactions = outcome.transactions,
                          !.inventory = outcome.inventory]
    /\ app'.view # app.view
    /\ UNCHANGED <<Transaction, Inventory, req, ops, last, prev, chat>>

SearchTerms == { <<>>, <<"A">> }

SortConfigs ==
    { Null, [key |-> "quantity", direction |-> "asc"],
      [key |-> "quantity", direction |-> "desc"],
      [key |-> "totalValue", direction |-> "desc"] }

ShowsDashboard == Shows("Dashboard", DashboardStats(app.transactions, app.inventory))

ShowsChart == Shows("Reports", chartData(app.transactions, app.inventory))

ShowsReport ==
    Shows("generateBusinessReport", generateBusinessReport(app.transactions, app.inventory))

ShowsChat == Shows("getChatResponse", getChatResponse(app.transactions, app.inventory))

ShowsInventoryList(searchTerm, sortConfig) ==
    LET outcome == processedInventory(app.inventory, searchTerm, sortConfig)
    IN Shows("InventoryList",
             [returned |-> outcome.returned, transactions |-> app.transactions,
              inventory |-> outcome.inventory])

\* the form offers two-line invoices for the products "Ab" and "M"
ViewItemLists ==
    { <<[description |-> <<"A", "b">>, quantity |-> 2, price |-> 3],
        [description |-> <<"M">>, quantity |-> 1, price |-> 1]>> }

NextViews ==
    \/ FetchData(TRUE, Len(seed))
    \/ \E type \in Types, date \in Dates, items \in ViewItemLists :
          FormSubmit(Null, type, date, items)
    \/ ShowsDashboard
    \/ ShowsChart
    \/ ShowsReport
    \/ ShowsChat
    \/ \E searchTerm \in SearchTerms, sortConfig \in SortConfigs :
          ShowsInventoryList(searchTerm, sortConfig)

SpecViews == Init /\ [][NextViews]_vars

(***************************************************************************)
(* The ledger specifications: POST /api/transactions handled to the end    *)
(* with no storage failure, one request at a time, each under a new id.    *)
(***************************************************************************)
NewId == <<"t1", "t2", "t3", "t4", "t5">>[Len(Transaction) + 1]

\* the whole handler, server.js lines 34-87
SubmitNew(transaction) ==
    /\ Quiet
    /\ findOne(Transaction, transaction.id) = Null
    /\ LET after == PostTransaction(Stores, transaction)
       IN /\ Transaction' = after.Transaction
          /\ Inventory' = after.Inventory
    /\ UNCHANGED <<req, ops, last, prev, app, chat>>

\* one-line lists, and two-line lists of a small lot followed by a large lot
\* under another description
ItemLists ==
    {<<a>> : a \in LineItems}
        \cup {list \in {<<a, b>> : a \in {x \in LineItems : x.quantity = 1},
                                   b \in {x \in LineItems : x.quantity = 2}} :
                  list[1].description # list[2].description}

NextLedger ==
    \E type \in Types, date \in Dates, items \in ItemLists :
        /\ Len(Transaction) < MaxHist
        /\ SubmitNew(Txn(NewId, type, date, items))

SpecLedger == Init /\ [][NextLedger]_vars

\* the cost specification: one product, any quantity and price, dates ascending
NextCost ==
    \E type \in Types, quantity \in 1..MaxQty, price \in 0..MaxPrice :
        /\ Len(Transaction) < MaxSteps
        /\ SubmitNew(Txn(NewId, type, Len(Transaction) + 1,
                         <<[description |-> <<"A", "b">>, quantity |-> quantity,
                            price |-> price]>>))

SpecCost == Init /\ [][NextCost]_vars

(***************************************************************************)
(* Claims about the request handlers (specification Spec).                 *)
(***************************************************************************)
Stored(collection, id) == findOne(collection, id)

\* the stepwise handler, when it answers 200, has done what SubmitNew and
\* PostTransaction do in one step
HandlerSummary ==
    (Quiet /\ last.op = "POST" /\ last.status = 200)
        => Stores = PostTransaction(last.before, last.transaction)

\* C1: a POST of a transaction that is already stored with identical content
\* leaves both collections exactly as they were when it arrived
C1_ResubmitLeavesStores ==
    (Quiet /\ last.op = "POST"
       /\ Stored(last.before.Transaction, last.transaction.id) = last.transaction)
    => (Transaction = last.before.Transaction /\ Inventory = last.before.Inventory)

C1_Witness ==
    /\ Quiet /\ last.op = "POST" /\ last.status = 200
    /\ Stored(last.before.Transaction, last.transaction.id) = last.transaction
    /\ prev.op = "POST" /\ prev.status = 200 /\ prev.transaction = last.transaction
    /\ Inventory # <<>>

\* C2: a successful POST under an id that is already stored, whatever the
\* content, stores the submitted fields under that id, keeps the other
\* transactions and leaves every inventory document unchanged
C2_EditLeavesInventory ==
    (Quiet /\ last.op = "POST" /\ last.status = 200
       /\ Stored(last.before.Transaction, last.transaction.id) # Null)
    => /\ Stored(Transaction, last.transaction.id) = last.transaction
       /\ Len(Transaction) = Len(last.before.Transaction)
       /\ \A i \in DOMAIN Transaction :
             Transaction[i].id # last.transaction.id
                 => Transaction[i] = last.before.Transaction[i]
       /\ Inventory = last.before.Inventory

C2_Witness ==
    /\ Quiet /\ last.op = "POST" /\ last.status = 200
    /\ Stored(last.before.Transaction, last.transaction.id) # Null
    /\ LET old == Stored(last.before.Transaction, last.transaction.id)
       IN /\ old.type # last.transaction.type
          /\ old.date # last.transaction.date
          /\ old.items # last.transaction.items
    /\ Inventory # <<>>

\* C7: a successful DELETE removes the transaction with that id, keeps the
\* other transactions and leaves every inventory document unchanged
C7_DeleteLeavesInventory ==
    (Quiet /\ last.op = "DELETE" /\ last.status = 200)
    => /\ Stored(Transaction, last.transaction.id) = Null
       /\ Range(Transaction) =
             {t \in Range(last.before.Transaction) : t.id # last.transaction.id}
       /\ Inventory = last.before.Inventory

C7_Witness ==
    /\ Quiet /\ last.op = "DELETE" /\ last.status = 200
    /\ Stored(last.before.Transaction, last.transaction.id) # Null
    /\ Inventory # <<>>

\* C9: a POST that failed (answered 500) leaves no inventory change behind
C9_FailedPostLeavesInventory ==
    (Quiet /\ last.op = "POST" /\ last.status = 500)
    => Inventory = last.before.Inventory

\* C10: a failed POST followed by a successful retry of the same transaction
\* leaves the collections as one successful POST would have
C10_RetryEqualsSingleSubmission ==
    (Quiet /\ prev.op = "POST" /\ prev.status = 500
       /\ last.op = "POST" /\ last.status = 200
       /\ last.transaction = prev.transaction)
    => Stores = PostTransaction(prev.before, prev.transaction)

(***************************************************************************)
(* Claims about the ledger (specifications SpecLedger and SpecCost).       *)
(***************************************************************************)
SortedByDate(list) ==
    \A i \in 1..(Len(list) - 1) : list[i].date <= list[i + 1].date

\* the line items applied so far, over all stored transactions
AppliedItems == UNION {Range(t.items) : t \in Range(Transaction)}

\* C3: when the transactions were submitted in date order, the inventory the
\* server accumulated from empty holds the same records as the client's
\* derivation over the same list
C3_IncrementalEqualsDerived ==
    SortedByDate(Transaction)
        => Range(Inventory) = Range(DeriveInventory(Transaction))

C3_Witness ==
    /\ Len(Transaction) = 2
    /\ SortedByDate(Transaction)
    /\ Transaction[1].type = "PURCHASE" /\ Transaction[2].type = "SALE"
    /\ Len(Transaction[2].items) = 2
    /\ Len(Inventory) = 2
    /\ \E i \in DOMAIN Inventory : Inventory[i].quantity < 0
    /\ Range(Inventory) = Range(DeriveInventory(Transaction))

\* C4: after submissions under new ids in any order of dates, the server's
\* inventory holds the records derived from the stored transactions sorted
\* by date
C4_StoreEqualsDerivedInAnyOrder ==
    Range(Inventory) = Range(DeriveInventory(GetTransactions(Transaction)))

\* C8: normalising a key again changes nothing, and line items whose
\* descriptions differ only in case or surrounding blanks share one record,
\* in the server's collection and in the client's derived list
C8_OneRecordPerProduct ==
    LET derived == DeriveInventory(Transaction)
        keys == {ProductKey(x.description) : x \in AppliedItems}
    IN /\ \A d \in Descriptions : ProductKey(ProductKey(d)) = ProductKey(d)
       /\ \A x \in AppliedItems :
             /\ productId([description |-> productId(x)]) = productId(x)
             /\ key([description |-> key(x)]) = key(x)
       /\ \A k \in keys :
             /\ Cardinality({i \in DOMAIN Inventory :
                                ProductKey(Inventory[i].name) = k}) = 1
             /\ Cardinality({i \in DOMAIN derived :
                                ProductKey(derived[i].name) = k}) = 1
             /\ \E i \in DOMAIN Inventory : Inventory[i].id = k
             /\ \E i \in DOMAIN derived : derived[i].id = k

C8_Witness ==
    /\ \E x, y \in AppliedItems :
          /\ x.description = <<"A", "b">>
          /\ y.description = <<" ", "a", "B", " ">>
    /\ Len(Inventory) = 1
    /\ Inventory[1].id = <<"a", "b">>
    /\ Len(DeriveInventory(Transaction)) = 1

\* C5: two purchases of one product from no record give the summed quantity
\* and the quantity-weighted average of the two costs, on server and client
C5_WeightedAverage ==
    (Len(Transaction) = 2
       /\ Transaction[1].type = "PURCHASE" /\ Transaction[2].type = "PURCHASE")
    => LET a == Transaction[1].items[1]
           b == Transaction[2].items[1]
           quantity == a.quantity + b.quantity
           cost == Frac(a.quantity * a.price + b.quantity * b.price, quantity)
           derived == DeriveInventory(Transaction)
       IN /\ Len(Inventory) = 1
          /\ Inventory[1].quantity = quantity
          /\ Inventory[1].averageCost = cost
          /\ Len(derived) = 1
          /\ derived[1].quantity = quantity
          /\ derived[1].averageCost = cost

C5_Witness ==
    /\ Len(Transaction) = 2
    /\ Transaction[1].type = "PURCHASE" /\ Transaction[2].type = "PURCHASE"
    /\ Transaction[1].items[1] = [description |-> <<"A", "b">>, quantity |-> 1, price |-> 0]
    /\ Transaction[2].items[1] = [description |-> <<"A", "b">>, quantity |-> 2, price |-> 2]
    /\ Inventory[1].quantity = 3
    /\ Inventory[1].averageCost = <<4, 3>>

\* a SALE is submitted for a product that has a record
SaleApplied ==
    /\ Inventory # <<>>
    /\ Len(Transaction') = Len(Transaction) + 1
    /\ Transaction'[Len(Transaction')].type = "SALE"

\* C6 as stated: a SALE changes quantity and sellingPrice of the record and
\* nothing else
C6_SaleChangesOnlyQuantityAndPrice ==
    [][SaleApplied =>
         LET derived == DeriveInventory(Transaction)
             derivedAfter == DeriveInventory(Transaction')
         IN /\ [Inventory'[1] EXCEPT !.quantity = 0, !.sellingPrice = 0]
                  = [Inventory[1] EXCEPT !.quantity = 0, !.sellingPrice = 0]
            /\ [derivedAfter[1] EXCEPT !.quantity = 0, !.sellingPrice = 0]
                  = [derived[1] EXCEPT !.quantity = 0, !.sellingPrice = 0]]_vars

\* C6 amended: a SALE leaves averageCost (and id and name) unchanged; quantity
\* drops by the item's quantity, sellingPrice becomes the item's price and
\* lastUpdated becomes the transaction's date
C6_SaleKeepsAverageCost ==
    [][SaleApplied =>
         LET sale == Transaction'[Len(Transaction')]
             item == sale.items[1]
             derived == DeriveInventory(Transaction)
             derivedAfter == DeriveInventory(Transaction')
         IN /\ Inventory'[1] =
                  [Inventory[1] EXCEPT !.quantity = @ - item.quantity,
                                       !.sellingPrice = item.price,
                                       !.lastUpdated = sale.date]
            /\ derivedAfter[1] =
                  [derived[1] EXCEPT !.quantity = @ - item.quantity,
                                     !.sellingPrice = item.price,
                                     !.lastUpdated = sale.date]]_vars

C6_Witness ==
    /\ Len(Transaction) = 3
    /\ Transaction[1].type = "PURCHASE" /\ Transaction[2].type = "PURCHASE"
    /\ Transaction[3].type = "SALE"
    /\ Inventory[1].averageCost = <<1, 2>>
    /\ Inventory[1].sellingPrice = 2
    /\ Inventory[1].quantity = 0
    /\ Inventory[1].lastUpdated = 3

(***************************************************************************)
(* Claims about malformed requests (specification SpecUnchecked).          *)
(***************************************************************************)
Malformed(transaction) ==
    \E i \in DOMAIN transaction.items : ~HasDescription(transaction.items[i])

\* C11: a POST whose line items are malformed is answered with an error and
\* changes neither collection
C11_MalformedRejectedWhole ==
    (Quiet /\ last.op = "POST" /\ Malformed(last.transaction))
        => (last.status # 200 /\ Stores = last.before)

(***************************************************************************)
(* Claims about concurrent submissions (specification SpecRace).           *)
(***************************************************************************)
\* the signed quantity change of the line item handler w is working on
Delta(w) ==
    LET item == req[w].transaction.items[req[w].i]
    IN IF req[w].transaction.type = "PURCHASE" THEN item.quantity ELSE 0 - item.quantity

\* w's save() of a loaded document resolves although another request has
\* changed the stored quantity since w read it
StaleSave(w) ==
    /\ req[w].pc = "saveInventory"
    /\ req'[w].pc \in {"findInventory", "upsert"}
    /\ req[w].found # Null
    /\ Stored(Inventory, req[w].found.id).quantity # req[w].found.quantity

\* C12: nothing serializes the read and the write of a record: a save() that
\* resolves after another request changed the record stores the quantity
\* computed from the stale read, so the other request's change is gone
C12_StaleSaveOverwrites ==
    [][\A w \in Handlers :
          StaleSave(w) =>
              /\ Stored(Inventory', req[w].found.id).quantity
                     = req[w].found.quantity + Delta(w)
              /\ Stored(Inventory', req[w].found.id).quantity
                     # Stored(Inventory, req[w].found.id).quantity + Delta(w)]_vars

\* the key's quantity once the collections start empty and first, then second
\* are handled one after the other
SequentialQuantity(first, second) ==
    LET empty == [Transaction |-> <<>>, Inventory |-> <<>>]
    IN Stored(PostTransaction(PostTransaction(empty, first), second).Inventory,
              <<"a", "b">>).quantity

\* two submissions with distinct new ids were both answered 200 and the
\* quantity is that of neither sequential order
C12_Witness ==
    /\ Quiet /\ ops = 2
    /\ last.op = "POST" /\ last.status = 200
    /\ prev.op = "POST" /\ prev.status = 200
    /\ last.transaction.id # prev.transaction.id
    /\ Stored(Inventory, <<"a", "b">>) # Null
    /\ Stored(Inventory, <<"a", "b">>).quantity
           # SequentialQuantity(prev.transaction, last.transaction)
    /\ Stored(Inventory, <<"a", "b">>).quantity
           # SequentialQuantity(last.transaction, prev.transaction)

(***************************************************************************)
(* Claims about the response of a submission (specification Spec).         *)
(***************************************************************************)
\* the request was a POST answered 200
Accepted(request) == request.op = "POST" /\ request.status = 200

\* the id of the request's transaction was stored when the request arrived
ExistedBefore(request) ==
    Stored(request.before.Transaction, request.transaction.id) # Null

\* C13: the response of an accepted submission carries the stored transaction
\* and tells whether the id existed beforehand: two accepted submissions that
\* differ in that are answered differently
C13_ResponseReportsExistence ==
    (Quiet /\ Accepted(last))
        => /\ last.body.transaction = Stored(Transaction, last.transaction.id)
           /\ (Accepted(prev) /\ prev.body = last.body)
                  => (ExistedBefore(prev) <=> ExistedBefore(last))

(***************************************************************************)
(* Claims about the fields of an inventory record (specifications          *)
(* SpecLedger and SpecCost).                                               *)
(***************************************************************************)
\* purchased minus sold units of product k over the line items i.. of one
\* transaction
RECURSIVE NetOfItems(_, _, _)
NetOfItems(transaction, k, i) ==
    IF i > Len(transaction.items) THEN 0
    ELSE LET item == transaction.items[i]
             units == IF ProductKey(item.description) # k THEN 0
                      ELSE IF transaction.type = "PURCHASE" THEN item.quantity
                      ELSE 0 - item.quantity
         IN units + NetOfItems(transaction, k, i + 1)

\* purchased minus sold units of product k over a list of transactions
RECURSIVE NetQuantity(_, _)
NetQuantity(list, k) ==
    IF list = <<>> THEN 0
    ELSE NetOfItems(Head(list), k, 1) + NetQuantity(Tail(list), k)

\* C14: after any submissions under new ids, the quantity of every record, the
\* server's and the client's derived one, is the purchased minus the sold
\* units over all line items of its key; nothing stops it at zero
C14_QuantityIsNetOfLineItems ==
    LET derived == DeriveInventory(Transaction)
    IN /\ \A i \in DOMAIN Inventory :
              Inventory[i].quantity = NetQuantity(Transaction, Inventory[i].id)
       /\ \A i \in DOMAIN derived :
              derived[i].quantity = NetQuantity(Transaction, derived[i].id)

\* a purchase of one unit, then a sale of one and of two units of the same
\* product: the record stands at minus two
C14_Witness ==
    /\ Len(Transaction) = 2
    /\ Transaction[1].type = "PURCHASE" /\ Len(Transaction[1].items) = 1
    /\ Transaction[2].type = "SALE" /\ Len(Transaction[2].items) = 2
    /\ Len(Inventory) = 1
    /\ Inventory[1].quantity = 0 - 2
    /\ DeriveInventory(Transaction)[1].quantity = 0 - 2

\* the transactions of the list with a line item of product k
Touching(list, k) ==
    {t \in Range(list) : \E i \in DOMAIN t.items : ProductKey(t.items[i].description) = k}

\* the latest business date among the transactions that touched product k
LatestDate(list, k) ==
    CHOOSE d \in {t.date : t \in Touching(list, k)} :
        \A t \in Touching(list, k) : t.date <= d

\* C15: after submissions in any order of dates, lastUpdated of every server
\* record is the latest business date among the transactions that touched
\* its key
C15_LastUpdatedIsLatestDate ==
    \A i \in DOMAIN Inventory :
        Inventory[i].lastUpdated = LatestDate(Transaction, Inventory[i].id)

\* the descriptions of the line items of product k, in list and item order
RECURSIVE DescriptionsOf(_, _)
DescriptionsOf(list, k) ==
    IF list = <<>> THEN <<>>
    ELSE SelectSeq([i \in DOMAIN Head(list).items |-> Head(list).items[i].description],
                   LAMBDA d : ProductKey(d) = k)
             \o DescriptionsOf(Tail(list), k)

\* C16: the name of a record is the description of the first line item of its
\* key, in submission order on the server and in date order in the client's
\* derivation; later spellings of the same key do not replace it
C16_NameIsFirstDescription ==
    LET derived == DeriveInventory(Transaction)
    IN /\ \A i \in DOMAIN Inventory :
              Inventory[i].name = Head(DescriptionsOf(Transaction, Inventory[i].id))
       /\ \A i \in DOMAIN derived :
              derived[i].name
                  = Head(DescriptionsOf(sortedTransactions(Transaction), derived[i].id))

\* the record was created as "Ab" and a later line item spelled " aB " has
\* been applied to it
C16_Witness ==
    /\ Len(Transaction) = 2
    /\ Len(Inventory) = 1
    /\ Inventory[1].name = <<"A", "b">>
    /\ Inventory[1].lastUpdated = 2
    /\ Transaction[2].date = 2
    /\ Transaction[2].items[1].description = <<" ", "a", "B", " ">>

\* a PURCHASE is submitted for a product that has a record
PurchaseApplied ==
    /\ Inventory # <<>>
    /\ Len(Transaction') = Len(Transaction) + 1
    /\ Transaction'[Len(Transaction')].type = "PURCHASE"

\* averageCost after a purchase line item on a record: kept when the resulting
\* quantity is zero or negative, else the value of stock and purchase together
\* over the resulting quantity
CostAfterPurchase(record, item) ==
    IF record.quantity + item.quantity <= 0
    THEN record.averageCost
    ELSE Frac(record.quantity * record.averageCost[1]
                  + item.quantity * item.price * record.averageCost[2],
              record.averageCost[2] * (record.quantity + item.quantity))

\* C17: a PURCHASE line item leaves averageCost as it was when the resulting
\* quantity is zero or negative, and otherwise sets it to
\* (quantity*averageCost + item.quantity*item.price) / resulting quantity
C17_PurchaseCostGuard ==
    [][PurchaseApplied =>
         LET item == Transaction'[Len(Transaction')].items[1]
             derived == DeriveInventory(Transaction)
             derivedAfter == DeriveInventory(Transaction')
         IN /\ Inventory'[1].quantity = Inventory[1].quantity + item.quantity
            /\ Inventory'[1].averageCost = CostAfterPurchase(Inventory[1], item)
            /\ derivedAfter[1].quantity = derived[1].quantity + item.quantity
            /\ derivedAfter[1].averageCost = CostAfterPurchase(derived[1], item)]_vars

\* bought one unit at 2, sold two, bought one at 1: the quantity is back at
\* zero and the cost is still 2
C17_Witness ==
    /\ Len(Transaction) = 3
    /\ Transaction[1].type = "PURCHASE" /\ Transaction[1].items[1].price = 2
    /\ Transaction[2].type = "SALE" /\ Transaction[2].items[1].quantity = 2
    /\ Transaction[3].type = "PURCHASE" /\ Transaction[3].items[1].price = 1
    /\ Inventory[1].quantity = 0
    /\ Inventory[1].averageCost = <<2, 1>>
    /\ DeriveInventory(Transaction)[1].averageCost = <<2, 1>>

(***************************************************************************)
(* Claims about the life of records (specification Spec).                  *)
(***************************************************************************)
\* C18: a record of the Inventory collection is in the collection after every
\* step of every handler: submissions, deletions and inventory upserts remove
\* none, whatever its quantity
C18_RecordsStay ==
    [][\A i \in DOMAIN Inventory :
          \E j \in DOMAIN Inventory' : Inventory'[j].id = Inventory[i].id]_vars

\* a record with a negative quantity is there after the transaction that
\* created it was deleted
C18_Witness ==
    /\ Quiet
    /\ last.op = "DELETE" /\ last.status = 200
    /\ Stored(last.before.Transaction, last.transaction.id) # Null
    /\ Transaction = <<>>
    /\ \E i \in DOMAIN Inventory : Inventory[i].quantity < 0

\* C19: a DELETE of an id that is not stored is answered 200 and leaves both
\* collections as they were; a second DELETE of the same id leaves them as
\* the first did
C19_DeleteAbsentChangesNothing ==
    last.op = "DELETE"
        => /\ Stored(last.before.Transaction, last.transaction.id) = Null
                  => (last.status = 200 /\ Stores = last.before)
           /\ (prev.op = "DELETE" /\ prev.transaction.id = last.transaction.id)
                  => Stores = last.before

\* a stored transaction was deleted and then deleted again, its inventory
\* record staying
C19_Witness ==
    /\ last.op = "DELETE" /\ prev.op = "DELETE"
    /\ prev.transaction.id = last.transaction.id
    /\ Stored(prev.before.Transaction, prev.transaction.id) # Null
    /\ Stored(last.before.Transaction, last.transaction.id) = Null
    /\ Inventory # <<>>
    /\ Stores = last.before

(***************************************************************************)
(* Claims about totalAmount (specification SpecForm).                      *)
(***************************************************************************)
\* quantity * price summed over the line items i.. of a list
RECURSIVE SumOfLineAmounts(_, _)
SumOfLineAmounts(items, i) ==
    IF i > Len(items) THEN 0
    ELSE items[i].quantity * items[i].price + SumOfLineAmounts(items, i + 1)

\* C20 as stated: every stored transaction has totalAmount equal to the sum of
\* quantity * price over its items
C20_TotalAmountIsSum ==
    \A i \in DOMAIN Transaction :
        Transaction[i].totalAmount = SumOfLineAmounts(Transaction[i].items, 1)

\* C20: the server stores the totalAmount it was sent, and the one the form
\* sends is the sum of quantity * price over the items
C20_FormTotalIsSum ==
    last.op \in {"FORM", "POST"}
        => LET stored == Stored(Transaction, last.transaction.id)
           IN /\ stored.totalAmount = last.transaction.totalAmount
              /\ last.op = "FORM"
                    => stored.totalAmount = SumOfLineAmounts(stored.items, 1)

\* a transaction posted with a total of 0 was edited in the form, with two
\* line items, and is stored with their sum
C20_Witness ==
    /\ last.op = "FORM"
    /\ Stored(last.before.Transaction, last.transaction.id) # Null
    /\ Stored(last.before.Transaction, last.transaction.id).totalAmount = 0
    /\ Len(last.transaction.items) = 2
    /\ Stored(Transaction, last.transaction.id).totalAmount = 4

(***************************************************************************)
(* Claims about the components that read the lists (specification          *)
(* SpecViews).                                                             *)
(***************************************************************************)
\* a reporting or chat operation has just computed its view
ViewComputed == app'.view # app.view

\* C21: an operation that computes a report, a chat context, the chart, the
\* dashboard statistics or the filtered and sorted inventory leaves the
\* transaction list and the inventory list as they were, element order
\* included, and writes to neither collection
C21_ViewsLeaveLists ==
    [][ViewComputed =>
          /\ app'.transactions = app.transactions
          /\ app'.inventory = app.inventory
          /\ Transaction' = Transaction
          /\ Inventory' = Inventory]_vars

\* the inventory list was shown sorted by quantity, in another order than the
\* list of App has, which still is as derived
C21_Witness ==
    /\ app.view # Null
    /\ app.view.op = "InventoryList"
    /\ Len(app.view.returned) = 3
    /\ app.view.returned # app.inventory
    /\ app.inventory = DeriveInventory(app.transactions)

(***************************************************************************)
(* Claims about the order of the steps of one submission (specifications   *)
(* SpecItems and SpecRace).                                                *)
(***************************************************************************)
\* the signed quantity change line item i of a transaction makes
DeltaOf(transaction, i) ==
    IF transaction.type = "PURCHASE" THEN transaction.items[i].quantity
    ELSE 0 - transaction.items[i].quantity

\* the quantity of the key "ab" in a collection, 0 without a record
QuantityIn(collection) ==
    IF Stored(collection, <<"a", "b">>) = Null THEN 0
    ELSE Stored(collection, <<"a", "b">>).quantity

\* C22: while the handler of a new transaction waits for the save() of its
\* second line item, the first item's write is in the collection and the
\* document being saved was computed from it; when the request is answered
\* the record holds both items' changes
C22_ItemsAppliedInOrder ==
    \A w \in Workers :
        LET transaction == req[w].transaction
            base == QuantityIn(req[w].before.Inventory)
        IN /\ (req[w].pc = "saveInventory" /\ req[w].i = 2)
                  => /\ QuantityIn(Inventory) = base + DeltaOf(transaction, 1)
                     /\ req[w].found # Null
                     /\ req[w].invItem.quantity
                            = base + DeltaOf(transaction, 1) + DeltaOf(transaction, 2)
           /\ (req[w].pc = "upsert" /\ req[w].existing = Null
                 /\ Len(transaction.items) = 2)
                  => QuantityIn(Inventory)
                         = base + DeltaOf(transaction, 1) + DeltaOf(transaction, 2)

\* a second purchase of one and two units under two spellings of "ab" waits
\* for its upsert with the record at six units
C22_Witness ==
    /\ req["w1"].pc = "upsert"
    /\ req["w1"].existing = Null
    /\ Len(req["w1"].transaction.items) = 2
    /\ QuantityIn(req["w1"].before.Inventory) = 3
    /\ QuantityIn(Inventory) = 6

\* C23: the step that stores the record of a new transaction is the upsert
\* at the end of the handler, taken when the inventory already holds the
\* changes of all its line items; the step itself leaves the inventory alone
C23_InventoryBeforeRecord ==
    [][\A w \in Workers :
          (/\ req[w].op = "POST"
           /\ req[w].pc # "findTransaction"
           /\ req[w].existing = Null
           /\ Stored(Transaction', req[w].transaction.id) # Null)
              => /\ req[w].pc = "upsert"
                 /\ Inventory = AdjustAll(req[w].before.Inventory, req[w].transaction, 1)
                 /\ Inventory' = Inventory]_vars

\* a new two-item transaction has both inventory writes done and its record
\* not stored yet
C23_Witness ==
    /\ req["w1"].pc = "upsert"
    /\ req["w1"].existing = Null
    /\ Len(req["w1"].transaction.items) = 2
    /\ Len(Inventory) = Len(req["w1"].before.Inventory) + 2
    /\ Stored(Transaction, req["w1"].transaction.id) = Null

(***************************************************************************)
(* Claims about the client's list and start-up (specifications SpecForm    *)
(* and SpecStart).                                                         *)
(***************************************************************************)
\* C24: a transaction saved under a new id stands first in the list of App,
\* and when the transactions of the list have one date the derived inventory
\* is the fold over the list as it stands, newest submission first
C24_SameDateFoldsInListOrder ==
    /\ (last.op = "FORM" /\ Stored(last.before.Transaction, last.transaction.id) = Null)
           => Head(app.transactions) = last.transaction
    /\ (\A i, j \in DOMAIN app.transactions :
            app.transactions[i].date = app.transactions[j].date)
           => app.inventory = DeriveFrom(<<>>, app.transactions, 1)

\* "Ab" was submitted first and "ab" second under the same date: the client
\* folds "ab" first and names the record after it, the server after "Ab"
C24_Witness ==
    /\ Len(app.transactions) = 2
    /\ Transaction = <<app.transactions[2], app.transactions[1]>>
    /\ app.transactions[1].date = app.transactions[2].date
    /\ \E i \in DOMAIN app.inventory :
           /\ app.inventory[i].name = <<"a", "b">>
           /\ Stored(Inventory, app.inventory[i].id).name = <<"A", "b">>

(***************************************************************************)
(* Claims about deletion followed by resubmission (specification           *)
(* SpecLifecycle).                                                         *)
(***************************************************************************)
\* C25: the line items of a transaction id are applied to the Inventory
\* collection at most once: a submission of an id that was stored, and so
\* applied, before and was deleted in the request just before leaves the
\* Inventory collection as it found it
C25_AppliedAtMostOnce ==
    (/\ last.op = "POST" /\ last.status = 200
     /\ prev.op = "DELETE"
     /\ prev.transaction.id = last.transaction.id
     /\ Stored(prev.before.Transaction, prev.transaction.id) # Null)
        => Inventory = last.before.Inventory

(***************************************************************************)
(* Claims about two submissions of one id in flight (specification         *)
(* SpecResent).                                                            *)
(***************************************************************************)
\* the documents of the collection that have the id
WithId(coll, id) == {i \in DOMAIN coll : coll[i].id = id}

\* C26: when two submissions carrying the same new id were in flight together
\* and both were answered, whatever the interleaving of their steps, the
\* Inventory collection holds the line items applied exactly once and the
\* Transaction collection exactly one record of the id
C26_SameIdAppliedOnce ==
    (/\ Quiet /\ ops = 2
     /\ last.op = "POST" /\ prev.op = "POST"
     /\ last.transaction = prev.transaction
     /\ Stored(last.before.Transaction, last.transaction.id) = Null
     /\ Stored(prev.before.Transaction, prev.transaction.id) = Null)
        => /\ Inventory = AdjustAll(<<>>, last.transaction, 1)
           /\ Cardinality(WithId(Transaction, last.transaction.id)) = 1

(***************************************************************************)
(* Claims about the sign of averageCost (specification SpecCost).          *)
(***************************************************************************)
\* the rational n/d is zero or above
NonNegative(cost) == cost[1] * cost[2] >= 0

\* C27: with line items of positive quantity and price zero or above, the
\* averageCost of every record is zero or above, in the Inventory collection
\* and in the client's derivation, also after a purchase that brings a
\* negative quantity back above zero
C27_AverageCostNonNegative ==
    /\ \A i \in DOMAIN Inventory : NonNegative(Inventory[i].averageCost)
    /\ \A i \in DOMAIN DeriveInventory(Transaction) :
           NonNegative(DeriveInventory(Transaction)[i].averageCost)

(***************************************************************************)
(* Claims about what a submission leaves alone (specification SpecLedger). *)
(***************************************************************************)
\* the keys of the line items of a transaction
KeysOf(transaction) ==
    {productId(transaction.items[i]) : i \in DOMAIN transaction.items}

\* between two inventories, only records of the given keys differ or are new;
\* with keepPrice, the records that were there keep their sellingPrice
OnlyKeysChange(before, after, keys, keepPrice) ==
    /\ \A i \in DOMAIN before :
           /\ before[i].id \notin keys => Stored(after, before[i].id) = before[i]
           /\ keepPrice => Stored(after, before[i].id) # Null
                           /\ Stored(after, before[i].id).sellingPrice
                                  = before[i].sellingPrice
    /\ \A j \in DOMAIN after :
           Stored(before, after[j].id) = Null => after[j].id \in keys

\* C28: a submission changes, in the Inventory collection and in the client's
\* derivation, only the records whose key is the normalized description of
\* one of its line items; every other record stays as it was, and under a
\* PURCHASE the records it touches keep their sellingPrice
C28_OnlyItemKeysChange ==
    [][Len(Transaction') = Len(Transaction) + 1 =>
         \A transaction \in {Transaction'[Len(Transaction')]},
            derived \in {DeriveInventory(Transaction)},
            derivedAfter \in {DeriveInventory(Transaction')} :
             /\ OnlyKeysChange(Inventory, Inventory', KeysOf(transaction),
                               transaction.type = "PURCHASE")
             /\ OnlyKeysChange(derived, derivedAfter, KeysOf(transaction),
                               transaction.type = "PURCHASE")]_vars

\* a sale of "ab" and "m" set both selling prices; a purchase of "m" at another
\* price followed: "ab" is as the sale left it and "m" has the sale's price
C28_Witness ==
    /\ Len(Transaction) = 2
    /\ Transaction[1].type = "SALE" /\ KeysOf(Transaction[1]) = {<<"a", "b">>, <<"m">>}
    /\ Transaction[2].type = "PURCHASE" /\ KeysOf(Transaction[2]) = {<<"m">>}
    /\ Transaction[2].date > Transaction[1].date
    /\ Stored(Inventory, <<"a", "b">>)
           = Stored(AdjustAll(<<>>, Transaction[1], 1), <<"a", "b">>)
    /\ \E i \in DOMAIN Transaction[1].items :
           /\ productId(Transaction[1].items[i]) = <<"m">>
           /\ Transaction[1].items[i].price # Transaction[2].items[1].price
           /\ Stored(Inventory, <<"m">>).sellingPrice = Transaction[1].items[i].price
           /\ Stored(DeriveInventory(Transaction), <<"m">>).sellingPrice
                  = Transaction[1].items[i].price

(***************************************************************************)
(* Claims about start-up (specification SpecStart).                        *)
(***************************************************************************)
\* C29: fetchData writes the demo transactions to the server only when the
\* Transaction collection is empty: a start-up that changes either collection
\* found the Transaction collection empty, also when its load failed
C29_SeedsOnlyIntoEmptyStore ==
    [][(~app.loaded /\ app'.loaded /\ Stores' # Stores) => Transaction = <<>>]_vars

(***************************************************************************)
(* Claims about the chat assistant (specification SpecChatFair).           *)
(***************************************************************************)
\* the messages after the greeting are a user message and a model message in
\* turn, the last user message without its answer while a request is in
\* flight
Conversation ==
    /\ \A i \in DOMAIN chat.messages :
           chat.messages[i].role = IF i % 2 = 1 THEN "model" ELSE "user"
    /\ Len(chat.messages) % 2 = (IF chat.isLoading THEN 0 ELSE 1)

\* C30: a submission of the chat form while a request is in flight or with a
\* blank input changes nothing, so at most one request is in flight and
\* isLoading says whether one is; a submission that is accepted appends one
\* user message with the input and issues one request; every answer, text or
\* failure text, appends one model message and clears isLoading, so the
\* messages alternate; and a request in flight is eventually answered
C30_ChatOneRequestAtATime ==
    /\ [](/\ Len(chat.requests) <= 1
          /\ chat.isLoading <=> Len(chat.requests) = 1
          /\ Conversation)
    /\ [][chat'.sends = chat.sends + 1 =>
            IF chat.isLoading \/ trim(chat.input) = <<>>
            THEN [chat' EXCEPT !.sends = chat.sends] = chat
            ELSE /\ chat'.messages
                       = Append(chat.messages, [role |-> "user", content |-> chat.input])
                 /\ chat'.isLoading
                 /\ Len(chat'.requests) = 1]_vars
    /\ [][Len(chat'.requests) < Len(chat.requests) =>
            /\ Len(chat'.messages) = Len(chat.messages) + 1
            /\ chat'.messages[Len(chat'.messages)].role = "model"
            /\ ~chat'.isLoading]_vars
    /\ (chat.isLoading ~> ~chat.isLoading)

\* two submissions: one was accepted and answered with the failure text, the
\* other, made while the request was in flight or with a blank input, left no
\* message
C30_Witness ==
    /\ chat.sends = 2
    /\ ~chat.isLoading
    /\ Len(chat.messages) = 3
    /\ chat.messages[2] = [role |-> "user", content |-> <<" ", "o", "k">>]
    /\ chat.messages[3] = [role |-> "model", content |-> "trouble connecting"]

====
